---- MODULE Spec2Model ----
(***************************************************************************)
(* A model of aicbTools (Lib/aicbTools.py): the AICB/EPS reader            *)
(* (drawAICBOutlines with its line regexes, bounding-box resolution and    *)
(* _getRectTransform) and the writer (AICBPen).                            *)
(*                                                                         *)
(* Text is a sequence of one-character strings.  Numbers the reader works  *)
(* with are exact rationals <<n, d>> (d > 0, lowest terms); Python's None  *)
(* is the empty tuple.                                                     *)
(***************************************************************************)
EXTENDS Integers, Sequences, FiniteSets, TLC

VARIABLES
    \* ---- AICBPen object and its driver
    epsData,        \* self._epsData: the lines emitted so far
    firstPoint,     \* self._firstPoint
    currentPoint,   \* self._currentPoint
    drawn,          \* the drawing calls made on the pen so far, in order
    penExc,         \* the exception the last pen call raised, or ""
    \* ---- one call of drawAICBOutlines
    doc,            \* the document as indices into Pool (<<>> for pen text)
    data,           \* the text handed to drawAICBOutlines
    lines,          \* data.splitlines() of the normalised text
    idx,            \* the index of the next line of the scan
    contours,       \* contours
    previousOnCurve,\* previousOnCurve
    boundingBox,    \* boundingBox
    fitInside,      \* fitInside (rect1)
    fixedScale,     \* fixedScale
    transform,      \* the matrix returned by _getRectTransform
    ci,             \* the index of the next contour of the replay
    calls,          \* the calls received by the consumer pen, in order
    result,         \* the value returned: "True", "False" or "" (none yet)
    exc,            \* the exception drawAICBOutlines raised, or ""
    pc              \* where the program is

vars == <<epsData, firstPoint, currentPoint, drawn, penExc, doc, data, lines,
          idx, contours, previousOnCurve, boundingBox, fitInside, fixedScale,
          transform, ci, calls, result, exc, pc>>

penVars == <<epsData, firstPoint, currentPoint, drawn, penExc>>

readerVars == <<doc, data, lines, idx, contours, previousOnCurve, boundingBox,
                fitInside, fixedScale, transform, ci, calls, result, exc>>

-----------------------------------------------------------------------------
(* Bounds of the model.                                                    *)

\* the number of lines of a pool document
MaxLines == 3
\* the number of drawing calls made on one AICBPen
MaxCalls == 4
\* target rectangle coordinates are None or 10*k, k in 0..MaxTarget
MaxTarget == 2

-----------------------------------------------------------------------------
(* Python values.                                                          *)

None == <<>>

Last(s) == s[Len(s)]

Front(s) == SubSeq(s, 1, Len(s) - 1)

Abs(n) == IF n < 0 THEN -n ELSE n

RECURSIVE GCD(_, _)
GCD(a, b) == IF b = 0 THEN a ELSE GCD(b, a % b)

\* the rational n/d (d # 0) in lowest terms with a positive denominator
RNorm(n, d) ==
    LET g == GCD(Abs(n), Abs(d))
        s == IF d < 0 THEN -1 ELSE 1
    IN  <<(s * n) \div g, (s * d) \div g>>

Rat(n) == <<n, 1>>

RAdd(a, b) == RNorm(a[1] * b[2] + b[1] * a[2], a[2] * b[2])

RSub(a, b) == RNorm(a[1] * b[2] - b[1] * a[2], a[2] * b[2])

RMul(a, b) == RNorm(a[1] * b[1], a[2] * b[2])

\* a / b, b # 0
RDiv(a, b) == RNorm(a[1] * b[2], a[2] * b[1])

RLt(a, b) == a[1] * b[2] < b[1] * a[2]

RMin(a, b) == IF RLt(b, a) THEN b ELSE a

RMax(a, b) == IF RLt(a, b) THEN b ELSE a

RECURSIVE Pow10(_)
Pow10(k) == IF k = 0 THEN 1 ELSE 10 * Pow10(k - 1)

-----------------------------------------------------------------------------
(* Characters and the conversions float(), int(), str().                   *)

Digits == {"0", "1", "2", "3", "4", "5", "6", "7", "8", "9"}

\* the class [-\d\.]
NumChars == Digits \cup {"-", "."}

\* the class \s
Space == {" ", "\t", "\n", "\r"}

DigitVal(c) ==
    CASE c = "0" -> 0 [] c = "1" -> 1 [] c = "2" -> 2 [] c = "3" -> 3
      [] c = "4" -> 4 [] c = "5" -> 5 [] c = "6" -> 6 [] c = "7" -> 7
      [] c = "8" -> 8 [] c = "9" -> 9

DigitChar(n) ==
    CASE n = 0 -> "0" [] n = 1 -> "1" [] n = 2 -> "2" [] n = 3 -> "3"
      [] n = 4 -> "4" [] n = 5 -> "5" [] n = 6 -> "6" [] n = 7 -> "7"
      [] n = 8 -> "8" [] n = 9 -> "9"

RECURSIVE DigitsVal(_)
DigitsVal(s) ==
    IF s = <<>> THEN 0 ELSE 10 * DigitsVal(Front(s)) + DigitVal(Last(s))

IsDigit(c) == c \in Digits

IsDot(c) == c = "."

IsMinus(c) == c = "-"

\* the index of the first c in s, or Len(s) + 1
IndexOf(s, c) ==
    IF \E i \in 1..Len(s) : s[i] = c
    THEN CHOOSE i \in 1..Len(s) : s[i] = c /\ \A j \in 1..i - 1 : s[j] # c
    ELSE Len(s) + 1

\* float(s) for s over the class [-\d\.]: an optional leading sign, digits
\* with at most one point, at least one digit; anything else is a ValueError
ParseFloat(s) ==
    LET neg    == s # <<>> /\ s[1] = "-"
        body   == IF neg THEN Tail(s) ELSE s
        digs   == SelectSeq(body, IsDigit)
        dots   == Len(SelectSeq(body, IsDot))
        frac   == IF dots = 0 THEN 0 ELSE Len(body) - IndexOf(body, ".")
        ok     == /\ Len(digs) >= 1
                  /\ dots <= 1
                  /\ SelectSeq(body, IsMinus) = <<>>
    IN  IF ok
        THEN [ok |-> TRUE,
              val |-> RNorm((IF neg THEN -1 ELSE 1) * DigitsVal(digs), Pow10(frac))]
        ELSE [ok |-> FALSE, val |-> None]

RECURSIVE LStrip(_)
LStrip(s) == IF s # <<>> /\ s[1] \in Space THEN LStrip(Tail(s)) ELSE s

RECURSIVE RStrip(_)
RStrip(s) == IF s # <<>> /\ Last(s) \in Space THEN RStrip(Front(s)) ELSE s

\* int(s): surrounding whitespace is stripped, then an optional sign and at
\* least one digit, nothing else; anything else is a ValueError
ParseInt(s) ==
    LET t    == RStrip(LStrip(s))
        neg  == t # <<>> /\ t[1] = "-"
        body == IF neg THEN Tail(t) ELSE t
        ok   == body # <<>> /\ SelectSeq(body, IsDigit) = body
    IN  IF ok
        THEN [ok |-> TRUE, val |-> (IF neg THEN -1 ELSE 1) * DigitsVal(body)]
        ELSE [ok |-> FALSE, val |-> 0]

RECURSIVE NatStr(_)
NatStr(n) ==
    IF n < 10 THEN <<DigitChar(n)>>
    ELSE Append(NatStr(n \div 10), DigitChar(n % 10))

\* str(n) of an integer
Str(n) == IF n < 0 THEN <<"-">> \o NatStr(-n) ELSE NatStr(n)

-----------------------------------------------------------------------------
(* Text: str.splitlines, str.join, str.split and the regular expressions.  *)

\* the least element of a non-empty set of integers
Min(S) == CHOOSE x \in S : \A y \in S : x <= y

\* the end (exclusive) of the longest run of characters of cls from s[i]
RunEnd(s, i, cls) ==
    CHOOSE j \in i..Len(s) + 1 :
        /\ j = Len(s) + 1 \/ s[j] \notin cls
        /\ \A k \in i..j - 1 : s[k] \in cls

\* the first position from i on that holds a character of cls, or Len(s) + 1
FirstOf(s, i, cls) ==
    CHOOSE j \in i..Len(s) + 1 :
        /\ j = Len(s) + 1 \/ s[j] \in cls
        /\ \A k \in i..j - 1 : s[k] \notin cls

\* the lines of s from position st on
RECURSIVE LinesFrom(_, _)
LinesFrom(s, st) ==
    IF st > Len(s) THEN <<>>
    ELSE LET e    == FirstOf(s, st, {"\n", "\r"})
             crlf == e < Len(s) /\ s[e] = "\r" /\ s[e + 1] = "\n"
         IN  <<SubSeq(s, st, e - 1)>> \o LinesFrom(s, IF crlf THEN e + 2 ELSE e + 1)

\* s.splitlines(): lines end at \n, \r or \r\n; no empty last line
Splitlines(s) == LinesFrom(s, 1)

\* sep.join(ls)
Join(ls, sep) ==
    LET joined[k \in 0..Len(ls)] ==
            IF k = 0 THEN <<>>
            ELSE IF k = 1 THEN ls[1]
            ELSE joined[k - 1] \o sep \o ls[k]
    IN  joined[Len(ls)]

\* the pieces of s from position st on (st = Len(s) + 1: one empty piece)
RECURSIVE PiecesFrom(_, _, _)
PiecesFrom(s, c, st) ==
    LET e == FirstOf(s, st, {c})
    IN  IF e > Len(s) THEN <<SubSeq(s, st, Len(s))>>
        ELSE <<SubSeq(s, st, e - 1)>> \o PiecesFrom(s, c, e + 1)

\* s.split(c) for a one-character separator: empty pieces are kept
SplitOn(s, c) == PiecesFrom(s, c, 1)

\* n times: a greedy run of [-\d\.] followed by exactly one \s
RECURSIVE Groups(_, _, _, _)
Groups(s, i, n, acc) ==
    IF n = 0 THEN [ok |-> TRUE, g |-> acc, pos |-> i]
    ELSE LET j == RunEnd(s, i, NumChars)
         IN  IF j <= Len(s) /\ s[j] \in Space
             THEN Groups(s, j + 1, n - 1, Append(acc, SubSeq(s, i, j - 1)))
             ELSE [ok |-> FALSE, g |-> acc, pos |-> i]

\* ^ n operand groups, each followed by \s, then one character of ops $ ;
\* the groups of `optional` are ([-\d\.]*), the others ([-\d\.]+)
TokenRE(s, n, ops, optional) ==
    LET r == Groups(s, 1, n, <<>>)
    IN  [ok |-> /\ r.ok
                /\ r.pos = Len(s)
                /\ s[r.pos] \in ops
                /\ \A k \in 1..n : k \in optional \/ r.g[k] # <<>>,
         g  |-> r.g]

moveto_RE(s) == TokenRE(s, 2, {"m"}, {})

\* the class [l|L] holds the bar as well
lineto_RE(s) == TokenRE(s, 2, {"l", "|", "L"}, {})

startCurveTo_RE(s) == TokenRE(s, 4, {"v", "|", "V"}, {})

endCurveTo_RE(s) == TokenRE(s, 4, {"y", "|", "Y"}, {})

\* the third group is ([-\d\.]*)
curveto_RE(s) == TokenRE(s, 6, {"c", "|", "C"}, {3})

boundingBoxKey ==
    <<"%", "%", "B", "o", "u", "n", "d", "i", "n", "g", "B", "o", "x", ":">>

\* the first position where the key and one \s match, or 0
FindKey(s) ==
    LET n == Len(boundingBoxKey)
        M == {i \in 1..Len(s) - n :
                 /\ s[i] = boundingBoxKey[1]
                 /\ SubSeq(s, i, i + n - 1) = boundingBoxKey
                 /\ s[i + n] \in Space}
    IN  IF M = {} THEN 0 ELSE Min(M)

\* the group of the match at position i (0: no match)
GroupAt(s, i) ==
    IF i = 0 THEN [ok |-> FALSE, g |-> <<>>]
    ELSE [ok |-> TRUE,
          g  |-> SubSeq(s, i + Len(boundingBoxKey) + 1,
                        RunEnd(s, i + Len(boundingBoxKey) + 1,
                               NumChars \cup Space) - 1)]

\* boundingBox_RE.findall(s): the group of the first match (ok: any match)
boundingBox_RE(s) == GroupAt(s, FindKey(s))

-----------------------------------------------------------------------------
(* The reader: drawAICBOutlines.                                           *)

\* float() of every group of a match
Floats(g) == [k \in 1..Len(g) |-> ParseFloat(g[k])]

AllOk(fs) == \A k \in 1..Len(fs) : fs[k].ok

Op(tp, pts) == <<tp, pts>>

\* contours[-1].append(op)
AppendOp(cs, op) == [cs EXCEPT ![Len(cs)] = Append(@, op)]

ScanState(cs, prev, e) == [contours |-> cs, previousOnCurve |-> prev, exc |-> e]

\* a line/curve match: the operands are converted first, then contours[-1]
\* is looked up
AppendMatch(cs, prev, f, op, dest) ==
    IF ~AllOk(f) THEN ScanState(cs, prev, "ValueError")
    ELSE IF cs = <<>> THEN ScanState(cs, prev, "IndexError")
    ELSE ScanState(AppendOp(cs, op), dest, "")

\* a start-curve token that takes its own first operands as first control point
StartCurveOpUnresolved(prev, f) ==
    Op("curve", <<<<f[1].val, f[2].val>>, <<f[1].val, f[2].val>>,
                  <<f[3].val, f[4].val>>>>)

\* what a start-curve token (v, V) appends
StartCurveOp(prev, f) ==
    Op("curve", <<prev, <<f[1].val, f[2].val>>, <<f[3].val, f[4].val>>>>)

\* one iteration of the scan loop
ScanLine(cs, prev, line) ==
    LET mv == moveto_RE(line)
        ln == lineto_RE(line)
        sc == startCurveTo_RE(line)
        ec == endCurveTo_RE(line)
        cv == curveto_RE(line)
    IN  IF mv.ok THEN
            \* contours.append([]) comes before the conversions
            LET f == Floats(mv.g)
            IN  IF AllOk(f)
                THEN ScanState(Append(cs, <<Op("move", <<<<f[1].val, f[2].val>>>>)>>),
                               <<f[1].val, f[2].val>>, "")
                ELSE ScanState(Append(cs, <<>>), prev, "ValueError")
        ELSE IF ln.ok THEN
            LET f == Floats(ln.g)
            IN  AppendMatch(cs, prev, f,
                            Op("line", <<<<f[1].val, f[2].val>>>>),
                            <<f[1].val, f[2].val>>)
        ELSE IF sc.ok THEN
            LET f == Floats(sc.g)
            IN  AppendMatch(cs, prev, f, StartCurveOp(prev, f),
                            <<f[3].val, f[4].val>>)
        ELSE IF ec.ok THEN
            LET f == Floats(ec.g)
            IN  AppendMatch(cs, prev, f,
                            Op("curve", <<<<f[1].val, f[2].val>>,
                                          <<f[3].val, f[4].val>>,
                                          <<f[3].val, f[4].val>>>>),
                            <<f[3].val, f[4].val>>)
        ELSE IF cv.ok THEN
            LET f == Floats(cv.g)
            IN  AppendMatch(cs, prev, f,
                            Op("curve", <<<<f[1].val, f[2].val>>,
                                          <<f[3].val, f[4].val>>,
                                          <<f[5].val, f[6].val>>>>),
                            <<f[5].val, f[6].val>>)
        ELSE ScanState(cs, prev, "")

\* the scan loop from line i on: the state it ends in and the line it ends
\* at (the line that raised, or Len(ls) + 1)
RECURSIVE ScanFrom(_, _, _)
RECURSIVE ScanNext(_, _, _)
ScanFrom(ls, i, st) ==
    IF i > Len(ls) THEN <<st, i>>
    ELSE ScanNext(ls, i, ScanLine(st.contours, st.previousOnCurve, ls[i]))

ScanNext(ls, i, s) == IF s.exc # "" THEN <<s, i>> ELSE ScanFrom(ls, i + 1, s)

\* points.extend(pts) over every operation of every contour
RECURSIVE ContourPoints(_)
ContourPoints(c) ==
    IF c = <<>> THEN <<>> ELSE ContourPoints(Front(c)) \o Last(c)[2]

RECURSIVE AllPoints(_)
AllPoints(cs) ==
    IF cs = <<>> THEN <<>> ELSE AllPoints(Front(cs)) \o ContourPoints(Last(cs))

RECURSIVE Bounds(_, _, _)
Bounds(ps, i, b) ==
    IF i > Len(ps) THEN b
    ELSE Bounds(ps, i + 1,
                <<RMin(b[1], ps[i][1]), RMin(b[2], ps[i][2]),
                  RMax(b[3], ps[i][1]), RMax(b[4], ps[i][2])>>)

\* fontTools' calcBounds: (min x, min y, max x, max y), zeros for no points
calcBounds(ps) ==
    IF ps = <<>> THEN <<Rat(0), Rat(0), Rat(0), Rat(0)>>
    ELSE Bounds(ps, 2, <<ps[1][1], ps[1][2], ps[1][1], ps[1][2]>>)

\* int(i.split('.')[0]) for every piece of boundingBox[0].split(' ')
DeclaredInts(g) ==
    LET toks == SplitOn(g, " ")
    IN  [k \in 1..Len(toks) |-> ParseInt(SplitOn(toks[k], ".")[1])]

\* a resolution that keeps a declared box of zeros
BoxOfDeclaredKept(declared, cs) == [exc |-> "", box |-> declared]

\* the declared box, or the computed one when the declared one is all zeros
BoxOfDeclared(declared, cs) ==
    IF declared = <<Rat(0), Rat(0), Rat(0), Rat(0)>>
    THEN [exc |-> "", box |-> calcBounds(AllPoints(cs))]
    ELSE [exc |-> "", box |-> declared]

BoxOfInts(ints, cs) ==
    IF ~AllOk(ints) THEN [exc |-> "ValueError", box |-> None]
    ELSE BoxOfDeclared([k \in 1..Len(ints) |-> Rat(ints[k].val)], cs)

\* m: the outcome of boundingBox_RE.findall(data)
BoxOfMatch(m, cs) ==
    IF ~m.ok THEN [exc |-> "", box |-> calcBounds(AllPoints(cs))]
    ELSE BoxOfInts(DeclaredInts(m.g), cs)

\* the bounding box of text s with contours cs
ResolveBoundingBox(s, cs) == BoxOfMatch(boundingBox_RE(s), cs)

-----------------------------------------------------------------------------
(* _getRectTransform.                                                      *)

Defined(min1, max1, min2, max2) ==
    min1 # None /\ max1 # None /\ min2 # None /\ max2 # None

\* widthScale / heightScale: the same code on the x and on the y bounds
AxisScale(min1, max1, min2, max2) ==
    IF Defined(min1, max1, min2, max2)
    THEN LET extent1 == RSub(max1, min1)
             extent2 == RSub(max2, min2)
         IN  IF extent2 # Rat(0)
             THEN IF RLt(extent1, extent2) THEN RDiv(extent1, extent2)
                  ELSE IF RLt(extent2, extent1) THEN RDiv(extent1, extent2)
                  ELSE None
             ELSE None
    ELSE None

widthScale(rect1, rect2) == AxisScale(rect1[1], rect1[3], rect2[1], rect2[3])

heightScale(rect1, rect2) == AxisScale(rect1[2], rect1[4], rect2[2], rect2[4])

FitScale(rect1, rect2, fixed) ==
    IF fixed # None THEN fixed
    ELSE LET ws == widthScale(rect1, rect2)
             hs == heightScale(rect1, rect2)
         IN  IF ws = None /\ hs = None THEN Rat(1)
             ELSE IF ws # None /\ hs = None THEN ws
             ELSE IF ws = None /\ hs # None THEN hs
             ELSE RMin(ws, hs)

\* xOffset / yOffset: the same code on the x and on the y bounds
AxisOffset(min1, max1, min2, max2, scale) ==
    IF Defined(min1, max1, min2, max2)
    THEN LET smin    == RMul(min2, scale)
             smax    == RMul(max2, scale)
             aligned == IF RLt(smin, min1) THEN RSub(min1, smin)
                        ELSE IF RLt(max1, smax) THEN RSub(max1, smax)
                        ELSE Rat(0)
             extent1 == RSub(max1, min1)
             extent2 == RSub(smax, smin)
         IN  IF RLt(extent1, extent2)
             THEN RAdd(aligned, RDiv(RSub(extent1, extent2), Rat(2)))
             ELSE aligned
    ELSE Rat(0)

\* the matrix (scale, 0, 0, scale, xOffset, yOffset) for two four-tuples
getRectTransform(rect1, rect2, fixed) ==
    LET scale == FitScale(rect1, rect2, fixed)
    IN  <<scale, Rat(0), Rat(0), scale,
          AxisOffset(rect1[1], rect1[3], rect2[1], rect2[3], scale),
          AxisOffset(rect1[2], rect1[4], rect2[2], rect2[4], scale)>>

\* the call of line 322: unpacking a box that has not four values raises
FitTransform(rect1, rect2, fixed) ==
    IF Len(rect2) # 4 THEN [exc |-> "ValueError", t |-> None]
    ELSE [exc |-> "", t |-> getRectTransform(rect1, rect2, fixed)]

-----------------------------------------------------------------------------
(* The replay through fontTools' TransformPen.                             *)

\* (x, y) -> (a x + c y + e, b x + d y + f)
TransformPoint(t, p) ==
    <<RAdd(RAdd(RMul(t[1], p[1]), RMul(t[3], p[2])), t[5]),
      RAdd(RAdd(RMul(t[2], p[1]), RMul(t[4], p[2])), t[6])>>

\* the contour the replay draws: the trailing line is filtered out when
\* start[0] == end[0]
FilterContour(contour) ==
    IF /\ Len(contour) > 1
       /\ Last(contour)[1] = "line"
       /\ contour[1][1] = Last(contour)[1]
    THEN Front(contour)
    ELSE contour

PenCall(t, op) ==
    LET pts == [k \in 1..Len(op[2]) |-> TransformPoint(t, op[2][k])]
    IN  CASE op[1] = "move"  -> <<"moveTo", pts>>
          [] op[1] = "line"  -> <<"lineTo", pts>>
          [] op[1] = "curve" -> <<"curveTo", pts>>

\* the calls one iteration of the replay loop makes on the consumer
DrawContourCalls(contour, t) ==
    LET c == FilterContour(contour)
    IN  [k \in 1..Len(c) |-> PenCall(t, c[k])] \o <<<<"closePath", <<>>>>>>

RECURSIVE DrawFrom(_, _, _)
DrawFrom(cs, i, t) ==
    IF i > Len(cs) THEN <<>>
    ELSE DrawContourCalls(cs[i], t) \o DrawFrom(cs, i + 1, t)

-----------------------------------------------------------------------------
(* The writer: AICBPen.                                                    *)

\* line 428 of the source
psAdobe ==
    <<"%", "!", "P", "S", "-", "A", "d", "o", "b", "e", "-", "3", ".", "0">>

\* "%%%%Creator: %s" % creator, creator "AICBPen"
creatorLine ==
    <<"%", "%", "C", "r", "e", "a", "t", "o", "r", ":", " ", "A", "I", "C",
      "B", "P", "e", "n">>

\* "%%%%Title: %s Data" % creator
titleLine ==
    <<"%", "%", "T", "i", "t", "l", "e", ":", " ", "A", "I", "C", "B", "P",
      "e", "n", " ", "D", "a", "t", "a">>

\* "%%%%CreationDate: %s" % _timeStamp(), for one sample time stamp
creationDateLine ==
    <<"%", "%", "C", "r", "e", "a", "t", "i", "o", "n", "D", "a", "t", "e",
      ":", " ", "S", "u", "n", "d", "a", "y", " ", "J", "a", "n", "u", "a",
      "r", "y", " ", "0", "0", ":", "0", "0", ":", "0", "0", " ", "2", "0",
      "0", "0">>

\* line 433 of the source
endComments ==
    <<"%", "%", "E", "n", "d", "C", "o", "m", "m", "e", "n", "t", "s">>

\* line 434 of the source
beginProlog ==
    <<"%", "%", "B", "e", "g", "i", "n", "P", "r", "o", "l", "o", "g">>

\* _epsDict
epsDict ==
    <<"/", "A", "I", "C", "B", "P", "e", "n", " ", "2", "4", " ", "d", "i",
      "c", "t", " ", "d", "e", "f", " ", "A", "I", "C", "B", "P", "e", "n",
      " ", "b", "e", "g", "i", "n", "\n", "/", "V", "e", "r", "s", "i", "o",
      "n", " ", "0", " ", "d", "e", "f", "\n", "/", "b", "d", " ", "{", "b",
      "i", "n", "d", " ", "d", "e", "f", "}", " ", "d", "e", "f", "\n", "/",
      "n", " ", "{", "n", "e", "w", "p", "a", "t", "h", "}", " ", "b", "d",
      "\n", "/", "c", " ", "{", "c", "u", "r", "v", "e", "t", "o", "}", " ",
      "b", "d", "\n", "/", "C", " ", "{", "c", "u", "r", "v", "e", "t", "o",
      "}", " ", "b", "d", "\n", "/", "L", " ", "{", "l", "i", "n", "e", "t",
      "o", "}", " ", "b", "d", "\n", "/", "l", " ", "{", "l", "i", "n", "e",
      "t", "o", "}", " ", "b", "d", "\n", "/", "m", " ", "{", "m", "o", "v",
      "e", "t", "o", "}", " ", "b", "d", "\n", "/", "f", " ", "{", "c", "l",
      "o", "s", "e", "p", "a", "t", "h", "}", " ", "b", "d", "\n", "/", "S",
      " ", "{", "}", " ", "b", "d", "\n", "/", "*", "u", " ", "{", " ", "}",
      " ", "b", "d", "\n", "/", "*", "U", " ", "{", " ", "f", "i", "l", "l",
      "}", " ", "b", "d", "\n", "/", "A", " ", "{", "p", "o", "p", "}", " ",
      "b", "d", "\n", "/", "O", " ", "{", "p", "o", "p", "}", " ", "b", "d",
      "\n", "/", "D", " ", "{", "p", "o", "p", "}", " ", "b", "d", "\n", "/",
      "g", " ", "{", "s", "e", "t", "g", "r", "a", "y", "}", " ", "b", "d",
      "\n", "e", "n", "d">>

\* line 436 of the source
endProlog ==
    <<"%", "%", "E", "n", "d", "P", "r", "o", "l", "o", "g">>

\* _epsSetup
epsSetup ==
    <<"%", "%", "B", "e", "g", "i", "n", "S", "e", "t", "u", "p", "\n", "A",
      "I", "C", "B", "P", "e", "n", " ", "b", "e", "g", "i", "n", "\n", "n",
      "\n", "%", "%", "E", "n", "d", "S", "e", "t", "u", "p">>

\* line 438 of the source
stateReset ==
    <<"0", " ", "A", " ", " ", "*", "u", " ", "0", " ", "O", " ", "0", " ",
      "g">>

\* _epsTrailer
epsTrailer ==
    <<"*", "U", "\n", "%", "%", "P", "a", "g", "e", "T", "r", "a", "i", "l",
      "e", "r", "\n", "s", "h", "o", "w", "p", "a", "g", "e", "\n", "%", "%",
      "T", "r", "a", "i", "l", "e", "r", "\n", "e", "n", "d", "\n", "%", "%",
      "E", "O", "F">>

boundingBoxPrefix ==
    <<"%", "%", "B", "o", "u", "n", "d", "i", "n", "g", "B", "o", "x", ":",
      " ">>

pathReset ==
    <<"0", " ", "D">>

closeToken ==
    <<"f">>

\* "%s %s" % (str(pt[0]), str(pt[1]))
PointText(pt) == Str(pt[1]) \o <<" ">> \o Str(pt[2])

MoveToken(pt) == PointText(pt) \o <<" ", "m">>

LineToken(pt) == PointText(pt) \o <<" ", "l">>

CurveToken(pt1, pt2, pt3) ==
    PointText(pt1) \o <<" ">> \o PointText(pt2) \o <<" ">> \o PointText(pt3)
        \o <<" ", "c">>

\* ' '.join([str(i) for i in boundingBox])
BoxText(box) == Join([k \in 1..Len(box) |-> Str(box[k])], <<" ">>)

\* self._epsData after __init__
InitialEpsData(box) ==
    <<psAdobe, creatorLine, titleLine, creationDateLine,
      boundingBoxPrefix \o BoxText(box), endComments, beginProlog, epsDict,
      endProlog, epsSetup, stateReset>>

PenState(ed, fp, cp, e) ==
    [epsData |-> ed, firstPoint |-> fp, currentPoint |-> cp, exc |-> e]

penMoveTo(ed, fp, cp, pt) ==
    PenState(ed \o <<pathReset, MoveToken(pt)>>, pt, pt, "")

penLineTo(ed, fp, cp, pt) ==
    \* str(pt[0]) of None raises before anything is appended
    IF pt = None THEN PenState(ed, fp, cp, "TypeError")
    ELSE PenState(Append(ed, LineToken(pt)), fp, pt, "")

penCurveToOne(ed, fp, cp, pt1, pt2, pt3) ==
    PenState(Append(ed, CurveToken(pt1, pt2, pt3)), fp, pt3, "")

penClosePath(ed, fp, cp) ==
    IF fp # cp
    THEN LET s == penLineTo(ed, fp, cp, fp)
         IN  IF s.exc # "" THEN s
             ELSE PenState(Append(s.epsData, closeToken), s.firstPoint,
                           s.currentPoint, "")
    ELSE PenState(Append(ed, closeToken), fp, cp, "")

\* an endPath that appends nothing
penEndPathSilent(ed, fp, cp) == PenState(ed, fp, cp, "")

penEndPath(ed, fp, cp) == PenState(Append(ed, closeToken), fp, cp, "")

\* '\n'.join(self._epsData+[_epsTrailer])
getData(ed) == Join(Append(ed, epsTrailer), <<"\n">>)

-----------------------------------------------------------------------------
(* Inputs.                                                                 *)

\* The lines pool documents are made of.  text: the line; kind: the shape
\* the line has in the dialect's grammar (none: a marker or a comment;
\* box: a bounding-box directive); nums: its operands as written, or
\* `bad` when an operand is not a decimal number.
Pool ==
    <<
      \* 1: 0 0 m
      [text |->
          <<"0", " ", "0", " ", "m">>,
       kind |-> "move", bad |-> FALSE,
       nums |-> <<<<0, 1>>, <<0, 1>>>>],
      \* 2: 5 5 m
      [text |->
          <<"5", " ", "5", " ", "m">>,
       kind |-> "move", bad |-> FALSE,
       nums |-> <<<<5, 1>>, <<5, 1>>>>],
      \* 3: 15 25 l
      [text |->
          <<"1", "5", " ", "2", "5", " ", "l">>,
       kind |-> "line", bad |-> FALSE,
       nums |-> <<<<15, 1>>, <<25, 1>>>>],
      \* 4: 0 0 L
      [text |->
          <<"0", " ", "0", " ", "L">>,
       kind |-> "line", bad |-> FALSE,
       nums |-> <<<<0, 1>>, <<0, 1>>>>],
      \* 5: 10 10 20 20 v
      [text |->
          <<"1", "0", " ", "1", "0", " ", "2", "0", " ", "2", "0", " ", "v">>,
       kind |-> "startCurve", bad |-> FALSE,
       nums |-> <<<<10, 1>>, <<10, 1>>, <<20, 1>>, <<20, 1>>>>],
      \* 6: 10 10 20 20 y
      [text |->
          <<"1", "0", " ", "1", "0", " ", "2", "0", " ", "2", "0", " ", "y">>,
       kind |-> "endCurve", bad |-> FALSE,
       nums |-> <<<<10, 1>>, <<10, 1>>, <<20, 1>>, <<20, 1>>>>],
      \* 7: 1.5 2 3 -4 5 6 c
      [text |->
          <<"1", ".", "5", " ", "2", " ", "3", " ", "-", "4", " ", "5", " ",
            "6", " ", "c">>,
       kind |-> "curve", bad |-> FALSE,
       nums |-> <<<<3, 2>>, <<2, 1>>, <<3, 1>>, <<-4, 1>>, <<5, 1>>, <<6,
         1>>>>],
      \* 8: f
      [text |->
          <<"f">>,
       kind |-> "none", bad |-> FALSE,
       nums |-> <<>>],
      \* 9: %%BoundingBox: 0 0 0 0
      [text |->
          <<"%", "%", "B", "o", "u", "n", "d", "i", "n", "g", "B", "o", "x",
            ":", " ", "0", " ", "0", " ", "0", " ", "0">>,
       kind |-> "box", bad |-> FALSE,
       nums |-> <<<<0, 1>>, <<0, 1>>, <<0, 1>>, <<0, 1>>>>],
      \* 10: %%BoundingBox: -1.7 0.5 10.9 20
      [text |->
          <<"%", "%", "B", "o", "u", "n", "d", "i", "n", "g", "B", "o", "x",
            ":", " ", "-", "1", ".", "7", " ", "0", ".", "5", " ", "1", "0",
            ".", "9", " ", "2", "0">>,
       kind |-> "box", bad |-> FALSE,
       nums |-> <<<<-17, 10>>, <<1, 2>>, <<109, 10>>, <<20, 1>>>>],
      \* 11: - 1 m
      [text |->
          <<"-", " ", "1", " ", "m">>,
       kind |-> "move", bad |-> TRUE,
       nums |-> <<>>],
      \* 12: 1 2  4 5 6 c
      [text |->
          <<"1", " ", "2", " ", " ", "4", " ", "5", " ", "6", " ", "c">>,
       kind |-> "curve", bad |-> TRUE,
       nums |-> <<>>],
      \* 13: %%BoundingBox: 1 2 3
      [text |->
          <<"%", "%", "B", "o", "u", "n", "d", "i", "n", "g", "B", "o", "x",
            ":", " ", "1", " ", "2", " ", "3">>,
       kind |-> "box", bad |-> FALSE,
       nums |-> <<<<1, 1>>, <<2, 1>>, <<3, 1>>>>]
    >>

\* the points drawn into an AICBPen (integer coordinates)
PenPoints == {<<0, 0>>, <<10, -5>>}

\* the arguments of a curveTo call
CurveArgs == {<<<<1, 2>>, <<3, 4>>, <<10, -5>>>>}

\* the bounding boxes an AICBPen is constructed with
PenBoxes == {<<0, -5, 10, 10>>}

NoFit == <<None, None, None, None>>

\* the fitInside rectangles of the pool documents
FitChoices == {NoFit, <<Rat(0), Rat(0), Rat(10), Rat(10)>>}

\* the documents: at most MaxLines lines of the pool
Docs == UNION {[1..n -> 1..Len(Pool)] : n \in 0..MaxLines}

DocText(d) == Join([k \in 1..Len(d) |-> Pool[d[k]].text], <<"\n">>)

\* the coordinates of a target rectangle
TargetCoords == {None} \cup {Rat(10 * k) : k \in 0..MaxTarget}

\* the target rectangles of the rect-fit: any bound may be left out, and a
\* low bound is not above the high bound of its axis
Targets ==
    {r \in [1..4 -> TargetCoords] :
        \A a \in 1..2 :
            r[a] = None \/ r[a + 2] = None \/ ~RLt(r[a + 2], r[a])}

\* the source rectangles of the rect-fit
SourceRects ==
    {<<Rat(x1), Rat(y1), Rat(x2), Rat(y2)>> :
        x1 \in {-10, 0}, y1 \in {-10, 0}, x2 \in {0, 10, 20}, y2 \in {0, 10, 20}}

FixedScales == {None, Rat(1), <<1, 2>>}

-----------------------------------------------------------------------------
(* Initial states.                                                         *)

NoPen ==
    /\ epsData = <<>>
    /\ firstPoint = None
    /\ currentPoint = None
    /\ drawn = <<>>
    /\ penExc = ""

NotStarted ==
    /\ lines = <<>>
    /\ idx = 0
    /\ contours = <<>>
    /\ previousOnCurve = None
    /\ transform = None
    /\ ci = 0
    /\ calls = <<>>
    /\ result = ""
    /\ exc = ""

\* a new AICBPen; its text will be read back with no fit
Init ==
    /\ \E box \in PenBoxes : epsData = InitialEpsData(box)
    /\ firstPoint = None
    /\ currentPoint = None
    /\ drawn = <<>>
    /\ penExc = ""
    /\ doc = <<>>
    /\ data = <<>>
    /\ boundingBox = None
    /\ fitInside = NoFit
    /\ fixedScale = None
    /\ NotStarted
    /\ pc = "pen"

\* drawAICBOutlines is about to be called on a pool document
InitReader ==
    /\ NoPen
    /\ doc \in Docs
    /\ data = DocText(doc)
    /\ boundingBox = None
    /\ fitInside \in FitChoices
    /\ fixedScale = None
    /\ NotStarted
    /\ pc = "call"

\* _getRectTransform is about to be called
InitFit ==
    /\ NoPen
    /\ doc = <<>>
    /\ data = <<>>
    /\ fitInside \in Targets
    /\ boundingBox \in SourceRects
    /\ fixedScale \in FixedScales
    /\ NotStarted
    /\ pc = "fit"

-----------------------------------------------------------------------------
(* The calls on an AICBPen (through fontTools' BasePen).                   *)

PenCallMade(s, call) ==
    /\ pc = "pen"
    /\ Len(drawn) < MaxCalls
    /\ epsData' = s.epsData
    /\ firstPoint' = s.firstPoint
    /\ currentPoint' = s.currentPoint
    /\ penExc' = s.exc
    /\ drawn' = Append(drawn, call)
    /\ UNCHANGED <<readerVars, pc>>

MoveTo ==
    \E pt \in PenPoints :
        PenCallMade(penMoveTo(epsData, firstPoint, currentPoint, pt),
                    <<"moveTo", <<pt>>>>)

LineTo ==
    \E pt \in PenPoints :
        PenCallMade(penLineTo(epsData, firstPoint, currentPoint, pt),
                    <<"lineTo", <<pt>>>>)

CurveTo ==
    \E a \in CurveArgs :
        PenCallMade(penCurveToOne(epsData, firstPoint, currentPoint,
                                  a[1], a[2], a[3]),
                    <<"curveTo", a>>)

ClosePath ==
    PenCallMade(penClosePath(epsData, firstPoint, currentPoint),
                <<"closePath", <<>>>>)

EndPath ==
    PenCallMade(penEndPath(epsData, firstPoint, currentPoint),
                <<"endPath", <<>>>>)

\* the text of the pen is extracted and becomes the reader's input
GetData ==
    /\ pc = "pen"
    /\ data' = getData(epsData)
    /\ pc' = "call"
    /\ UNCHANGED <<penVars, doc, lines, idx, contours, previousOnCurve,
                   boundingBox, fitInside, fixedScale, transform, ci, calls,
                   result, exc>>

-----------------------------------------------------------------------------
(* drawAICBOutlines, step by step.                                         *)

\* data = '\n'.join(data.splitlines())
Normalise(s) == Join(Splitlines(s), <<"\n">>)

Begin ==
    /\ pc = "call"
    /\ data' = Normalise(data)
    /\ lines' = Splitlines(data')
    /\ idx' = 1
    /\ pc' = "scan"
    /\ UNCHANGED <<penVars, doc, contours, previousOnCurve, boundingBox,
                   fitInside, fixedScale, transform, ci, calls, result, exc>>

\* one iteration of the scan loop
ScanStep ==
    /\ pc = "scan"
    /\ idx <= Len(lines)
    /\ LET s == ScanLine(contours, previousOnCurve, lines[idx])
       IN  /\ contours' = s.contours
           /\ previousOnCurve' = s.previousOnCurve
           /\ exc' = s.exc
           /\ idx' = IF s.exc = "" THEN idx + 1 ELSE idx
           /\ pc' = IF s.exc = "" THEN "scan" ELSE "raised"
    /\ UNCHANGED <<penVars, doc, data, lines, boundingBox, fitInside,
                   fixedScale, transform, ci, calls, result>>

\* a scan that goes on to the bounding box with no contour
EndScanUnchecked ==
    /\ pc = "scan"
    /\ idx > Len(lines)
    /\ pc' = "bbox"
    /\ UNCHANGED <<penVars, doc, data, lines, idx, contours, previousOnCurve,
                   boundingBox, fitInside, fixedScale, transform, ci, calls,
                   result, exc>>

\* if not contours: return False
EndScan ==
    /\ pc = "scan"
    /\ idx > Len(lines)
    /\ result' = IF contours = <<>> THEN "False" ELSE result
    /\ pc' = IF contours = <<>> THEN "done" ELSE "bbox"
    /\ UNCHANGED <<penVars, doc, data, lines, idx, contours, previousOnCurve,
                   boundingBox, fitInside, fixedScale, transform, ci, calls,
                   exc>>

BoundingBoxStep ==
    /\ pc = "bbox"
    /\ LET b == ResolveBoundingBox(data, contours)
       IN  /\ exc' = b.exc
           /\ boundingBox' = b.box
           /\ pc' = IF b.exc = "" THEN "fit" ELSE "raised"
    /\ UNCHANGED <<penVars, doc, data, lines, idx, contours, previousOnCurve,
                   fitInside, fixedScale, transform, ci, calls, result>>

Fit ==
    /\ pc = "fit"
    /\ LET f == FitTransform(fitInside, boundingBox, fixedScale)
       IN  /\ exc' = f.exc
           /\ transform' = f.t
           /\ pc' = IF f.exc = "" THEN "draw" ELSE "raised"
    /\ ci' = 1
    /\ UNCHANGED <<penVars, doc, data, lines, idx, contours, previousOnCurve,
                   boundingBox, fitInside, fixedScale, calls, result>>

\* one iteration of the replay loop
DrawContour ==
    /\ pc = "draw"
    /\ ci <= Len(contours)
    /\ calls' = calls \o DrawContourCalls(contours[ci], transform)
    /\ ci' = ci + 1
    /\ UNCHANGED <<penVars, doc, data, lines, idx, contours, previousOnCurve,
                   boundingBox, fitInside, fixedScale, transform, result, exc,
                   pc>>

\* return True
Return ==
    /\ pc = "draw"
    /\ ci > Len(contours)
    /\ result' = "True"
    /\ pc' = "done"
    /\ UNCHANGED <<penVars, doc, data, lines, idx, contours, previousOnCurve,
                   boundingBox, fitInside, fixedScale, transform, ci, calls,
                   exc>>

-----------------------------------------------------------------------------
(* drawAICBOutlines as one call.                                           *)

ReaderState(text, ls, i, s, box, t, k, cl, r, e) ==
    [data |-> text, lines |-> ls, idx |-> i, contours |-> s.contours,
     previousOnCurve |-> s.previousOnCurve, boundingBox |-> box,
     transform |-> t, ci |-> k, calls |-> cl, result |-> r, exc |-> e]

AfterFit(text, ls, i, s, box, f) ==
    IF f.exc # ""
    THEN ReaderState(text, ls, i, s, box, f.t, 1, <<>>, "", f.exc)
    ELSE ReaderState(text, ls, i, s, box, f.t, Len(s.contours) + 1,
                     DrawFrom(s.contours, 1, f.t), "True", "")

AfterBox(text, ls, i, s, b, fit, fixed) ==
    IF b.exc # ""
    THEN ReaderState(text, ls, i, s, b.box, None, 0, <<>>, "", b.exc)
    ELSE AfterFit(text, ls, i, s, b.box, FitTransform(fit, b.box, fixed))

AfterScan(text, ls, i, s, fit, fixed) ==
    IF s.exc # ""
    THEN ReaderState(text, ls, i, s, None, None, 0, <<>>, "", s.exc)
    ELSE IF s.contours = <<>>
    THEN ReaderState(text, ls, i, s, None, None, 0, <<>>, "False", "")
    ELSE AfterBox(text, ls, i, s, ResolveBoundingBox(text, s.contours), fit, fixed)

ScanOutcome(text, ls, si, fit, fixed) ==
    AfterScan(text, ls, si[2], si[1], fit, fixed)

AfterSplit(text, ls, fit, fixed) ==
    ScanOutcome(text, ls, ScanFrom(ls, 1, ScanState(<<>>, None, "")), fit, fixed)

\* the state drawAICBOutlines(text, pen, fit, fixed) ends in
Outlines(text, fit, fixed) == AfterSplit(text, Splitlines(text), fit, fixed)

DrawAICBOutlines ==
    /\ pc = "call"
    /\ \E r \in {Outlines(Normalise(data), fitInside, fixedScale)} :
           /\ data' = r.data
           /\ lines' = r.lines
           /\ idx' = r.idx
           /\ contours' = r.contours
           /\ previousOnCurve' = r.previousOnCurve
           /\ boundingBox' = r.boundingBox
           /\ transform' = r.transform
           /\ ci' = r.ci
           /\ calls' = r.calls
           /\ result' = r.result
           /\ exc' = r.exc
           /\ pc' = IF r.exc = "" THEN "done" ELSE "raised"
    /\ UNCHANGED <<penVars, doc, fitInside, fixedScale>>

-----------------------------------------------------------------------------
(* Specifications.                                                         *)

\* an AICBPen is drawn into, its text is extracted and read back
Next ==
    \/ MoveTo
    \/ LineTo
    \/ CurveTo
    \/ ClosePath
    \/ EndPath
    \/ GetData
    \/ DrawAICBOutlines

Spec == Init /\ [][Next]_vars

\* drawAICBOutlines on a pool document, step by step
NextReader ==
    \/ Begin
    \/ ScanStep
    \/ EndScan
    \/ BoundingBoxStep
    \/ Fit
    \/ DrawContour
    \/ Return

SpecReader == InitReader /\ [][NextReader]_vars

\* _getRectTransform on a target and a source rectangle
NextFit == Fit

SpecFit == InitFit /\ [][NextFit]_vars

-----------------------------------------------------------------------------
(* Properties of _getRectTransform (SpecFit).                              *)

Zeros == <<Rat(0), Rat(0), Rat(0), Rat(0)>>

\* a rational is at most another
RLe(a, b) == ~RLt(b, a)

\* a call of _getRectTransform has returned its matrix
Fitted == pc = "draw" /\ exc = "" /\ transform # None

\* by how much the transformed source passes the target below its low bound
\* and above its high bound, on the axis with low bounds tmin, smin
LowOverhang(tmin, smin, scale, off) ==
    RSub(tmin, RAdd(RMul(smin, scale), off))

HighOverhang(tmax, smax, scale, off) ==
    RSub(RAdd(RMul(smax, scale), off), tmax)

\* the scaled source extent exceeds the target extent
Exceeds(tmin, tmax, smin, smax, scale) ==
    RLt(RSub(tmax, tmin), RMul(RSub(smax, smin), scale))

\* axis a (1: x, 2: y) of the fit is centred when the source exceeds the
\* target on it
CenteredOn(a) ==
    (/\ fitInside[a] # None
     /\ fitInside[a + 2] # None
     /\ Exceeds(fitInside[a], fitInside[a + 2],
                boundingBox[a], boundingBox[a + 2], transform[1]))
    => LowOverhang(fitInside[a], boundingBox[a], transform[1],
                   transform[4 + a])
       = HighOverhang(fitInside[a + 2], boundingBox[a + 2], transform[1],
                      transform[4 + a])

\* the example of the claim: target (0,0,10,10), source (0,0,20,20), fixed
\* scale 1
HighEdgeExample ==
    /\ fitInside = <<Rat(0), Rat(0), Rat(10), Rat(10)>>
    /\ boundingBox = <<Rat(0), Rat(0), Rat(20), Rat(20)>>
    /\ fixedScale = Rat(1)

\* C2: on every axis with both target bounds defined where the scaled source
\* extent exceeds the target extent, the offset returned by _getRectTransform
\* centres the scaled source on the target (the same overhang at the low and
\* at the high edge); target (0,0,10,10), source (0,0,20,20), fixedScale 1
\* give offsets of -5.
C2_OverflowCentered ==
    Fitted =>
        /\ \A a \in 1..2 : CenteredOn(a)
        /\ HighEdgeExample =>
               transform[5] = Rat(-5) /\ transform[6] = Rat(-5)

\* the per-axis scale as the claim states it
ClaimedAxisScale(tmin, tmax, smin, smax) ==
    IF tmin # None /\ tmax # None /\ smax # smin
    THEN RDiv(RSub(tmax, tmin), RSub(smax, smin))
    ELSE None

ClaimedWidthScale == ClaimedAxisScale(fitInside[1], fitInside[3],
                                      boundingBox[1], boundingBox[3])

ClaimedHeightScale == ClaimedAxisScale(fitInside[2], fitInside[4],
                                       boundingBox[2], boundingBox[4])

ClaimedScale ==
    IF ClaimedWidthScale # None /\ ClaimedHeightScale # None
    THEN RMin(ClaimedWidthScale, ClaimedHeightScale)
    ELSE IF ClaimedWidthScale # None THEN ClaimedWidthScale
    ELSE IF ClaimedHeightScale # None THEN ClaimedHeightScale
    ELSE Rat(1)

\* a fully specified target and a source with positive extents
FullFit ==
    /\ \A k \in 1..4 : fitInside[k] # None
    /\ RLt(boundingBox[1], boundingBox[3])
    /\ RLt(boundingBox[2], boundingBox[4])

\* the scaled source is not larger than the target on either axis
FitsInside ==
    \A a \in 1..2 :
        RLe(RMul(RSub(boundingBox[a + 2], boundingBox[a]), transform[1]),
            RSub(fitInside[a + 2], fitInside[a]))

\* C8: with no fixedScale, widthScale and heightScale are defined exactly
\* when both target bounds of the axis are defined and the source extent is
\* nonzero, and equal targetExtent/sourceExtent (1 for equal extents); the
\* returned scale is their minimum, the defined one, or 1; so for a fully
\* specified target and a source with positive extents the scaled source
\* does not exceed the target on either axis.
C8_ScaleFits ==
    (Fitted /\ fixedScale = None) =>
        /\ widthScale(fitInside, boundingBox) = ClaimedWidthScale
        /\ heightScale(fitInside, boundingBox) = ClaimedHeightScale
        /\ transform[1] = ClaimedScale
        /\ FullFit => FitsInside

-----------------------------------------------------------------------------
(* Properties of drawAICBOutlines on the pool documents (SpecReader).      *)

\* the grammar shape of line k of the document
Kind(k) == Pool[doc[k]].kind

\* the operands of line k of the document, as written
Nums(k) == Pool[doc[k]].nums

TokenKinds == {"line", "startCurve", "endCurve", "curve"}

\* the destination of an operation: its last point
Dest(op) == Last(op[2])

\* the point of the most recent moveTo among the first k calls of cl
StartOf(cl, k) ==
    LET j == CHOOSE j \in 1..k :
                 /\ cl[j][1] = "moveTo"
                 /\ \A i \in j + 1..k : cl[i][1] # "moveTo"
    IN  cl[j][2][1]

\* how many calls of cl are calls of method m
CountOf(cl, m) == Cardinality({k \in 1..Len(cl) : cl[k][1] = m})

\* C1: a parsed contour of more than one operation whose last operation is a
\* Line to the point of its opening Move is replayed without that Line: the
\* consumer gets one closePath per contour and never a lineTo to the start
\* point of the contour immediately followed by closePath.
C1_TrailingLineDropped ==
    /\ \A k \in 1..Len(calls) - 1 :
           ~(/\ calls[k][1] = "lineTo"
             /\ calls[k + 1][1] = "closePath"
             /\ calls[k][2][1] = StartOf(calls, k))
    /\ (pc = "done" /\ result = "True") =>
           CountOf(calls, "closePath") = Len(contours)

\* every line or curve token of the document comes after some move token
MoveBeforeTokens ==
    \A k \in 1..Len(doc) :
        Kind(k) \in TokenKinds => \E j \in 1..k - 1 : Kind(j) = "move"

\* C5: on a document in which each line/curve token comes after a move
\* token drawAICBOutlines never raises (malformed operands are skipped, a
\* bounding-box directive is used or replaced by the computed box), and it
\* returns True when a contour was built and False otherwise.
C5_NeverRaises ==
    MoveBeforeTokens =>
        /\ pc # "raised"
        /\ exc = ""
        /\ pc = "done" =>
               result = IF contours # <<>> THEN "True" ELSE "False"

\* the document has only comments, markers and bounding-box directives
NonPathDoc == \A k \in 1..Len(doc) : Kind(k) \in {"none", "box"}

\* C4: on a text with no path line drawAICBOutlines returns False and makes
\* no call on the pen; on any text no call is made on the pen before the
\* whole text has been scanned, and none when False is returned.
C4_AllOrNothing ==
    /\ (NonPathDoc /\ pc \notin {"call", "scan"}) =>
           pc = "done" /\ result = "False" /\ calls = <<>>
    /\ calls # <<>> => pc \in {"draw", "done"} /\ idx = Len(lines) + 1
    /\ result = "False" => calls = <<>>

\* a text of a marker and a bounding-box directive was read to its end
C4_Witness ==
    /\ pc = "done"
    /\ NonPathDoc
    /\ \E k \in 1..Len(doc) : Kind(k) = "none"
    /\ \E k \in 1..Len(doc) : Kind(k) = "box"
    /\ result = "False"

\* the lines of the document that hold a bounding-box directive
BoxLines == {k \in 1..Len(doc) : Kind(k) = "box"}

\* a rational truncated toward zero
Trunc(r) == IF r[1] >= 0 THEN r[1] \div r[2] ELSE -((-r[1]) \div r[2])

\* the values of the first directive, truncated
Declared ==
    [j \in 1..Len(Nums(Min(BoxLines))) |->
        Rat(Trunc(Nums(Min(BoxLines))[j]))]

\* every point of every contour
PointSet ==
    UNION {UNION {{contours[c][k][2][j] : j \in 1..Len(contours[c][k][2])} :
                     k \in 1..Len(contours[c])} :
              c \in 1..Len(contours)}

\* b is the tight enclosing rectangle of the points P
Tight(b, P) ==
    /\ Len(b) = 4
    /\ \A p \in P :
           RLe(b[1], p[1]) /\ RLe(p[1], b[3]) /\ RLe(b[2], p[2]) /\ RLe(p[2], b[4])
    /\ \E p \in P : p[1] = b[1]
    /\ \E p \in P : p[2] = b[2]
    /\ \E p \in P : p[1] = b[3]
    /\ \E p \in P : p[2] = b[4]

\* the example of the claim: points spanning (5,5)-(15,25) and a declared
\* box 0 0 0 0
ZeroBoxExample == doc = <<2, 3, 9>>

\* C7: the box passed to the rect-fit is the first %%BoundingBox directive
\* with its four values truncated toward zero, unless there is no directive
\* or the truncated box is (0,0,0,0): then it is the tight enclosing
\* rectangle of every point of every contour; a declared 0 0 0 0 with
\* points spanning (5,5)-(15,25) resolves to (5,5,15,25).
C7_BoundingBox ==
    pc = "fit" =>
        /\ (BoxLines # {} /\ Len(Declared) = 4 /\ Declared # Zeros) =>
               boundingBox = Declared
        /\ (BoxLines = {} \/ Declared = Zeros) => Tight(boundingBox, PointSet)
        /\ ZeroBoxExample =>
               boundingBox = <<Rat(5), Rat(5), Rat(15), Rat(25)>>

\* the declared box 0 0 0 0 was replaced by the bounds of the points
C7_Witness ==
    /\ pc = "fit"
    /\ ZeroBoxExample
    /\ boundingBox = <<Rat(5), Rat(5), Rat(15), Rat(25)>>

\* the shape of one contour
WellFormedContour(c) ==
    /\ c # <<>>
    /\ c[1][1] = "move"
    /\ \A k \in 2..Len(c) : c[k][1] \in {"line", "curve"}
    /\ \A k \in 1..Len(c) :
           /\ Len(c[k][2]) = IF c[k][1] = "curve" THEN 3 ELSE 1
           /\ \A j \in 1..Len(c[k][2]) :
                  /\ Len(c[k][2][j]) = 2
                  /\ \A a \in 1..2 :
                         /\ Len(c[k][2][j][a]) = 2
                         /\ c[k][2][j][a][1] \in Int
                         /\ c[k][2][j][a][2] > 0

\* old is kept in new: no operation appended before is changed or removed
Extends(old, new) ==
    /\ Len(new) >= Len(old)
    /\ \A c \in 1..Len(old) :
           /\ Len(new[c]) >= Len(old[c])
           /\ SubSeq(new[c], 1, Len(old[c])) = old[c]

\* the scan has converted line idx without error
LineScanned == pc = "scan" /\ pc' = "scan" /\ idx' = idx + 1

\* the point written as operands a, a + 1 of line k
NumPoint(k, a) == <<RNorm(Nums(k)[a][1], Nums(k)[a][2]),
                    RNorm(Nums(k)[a + 1][1], Nums(k)[a + 1][2])>>

\* what the scan of line idx has appended
Appended == Last(Last(contours'))

\* a start-curve token appends a Curve from the destination of the operation
\* before it in the same contour
StartCurveResolved ==
    Kind(idx) = "startCurve" =>
        /\ Len(Last(contours')) >= 2
        /\ Appended[1] = "curve"
        /\ Appended[2] = <<Dest(Last(contours')[Len(Last(contours')) - 1]),
                           NumPoint(idx, 1), NumPoint(idx, 3)>>

\* an end-curve token appends a Curve whose second control point is its
\* destination
EndCurveResolved ==
    Kind(idx) = "endCurve" =>
        /\ Appended[1] = "curve"
        /\ Appended[2] = <<NumPoint(idx, 1), NumPoint(idx, 3), NumPoint(idx, 3)>>

\* the example of the specification: from (0,0), 10 10 20 20 v and then
\* 10 10 20 20 y
ShorthandExample ==
    (doc = <<1, 5, 6>> /\ pc = "scan" /\ idx = 4) =>
        contours =
            <<<<Op("move", <<<<Rat(0), Rat(0)>>>>),
                Op("curve", <<<<Rat(0), Rat(0)>>, <<Rat(10), Rat(10)>>,
                              <<Rat(20), Rat(20)>>>>),
                Op("curve", <<<<Rat(10), Rat(10)>>, <<Rat(20), Rat(20)>>,
                              <<Rat(20), Rat(20)>>>>)>>>>

\* C9: after each line of the scan that completes without error every
\* contour is non-empty, starts with a Move and holds no later Move, and
\* every Curve holds three resolved points; operations appended before are
\* never changed or removed; a v/V Curve starts at the destination of the
\* operation before it in its contour, a y/Y Curve has its second control
\* point equal to its destination.
C9_ContourInvariant ==
    /\ [](pc # "raised" =>
            /\ \A c \in 1..Len(contours) : WellFormedContour(contours[c])
            /\ ShorthandExample)
    /\ [][/\ Extends(contours, contours')
          /\ LineScanned => StartCurveResolved /\ EndCurveResolved]_vars

\* a start-curve token was scanned after a Move and one more operation
C9_Witness ==
    /\ pc = "scan"
    /\ idx > 1
    /\ Kind(idx - 1) = "startCurve"
    /\ Len(Last(contours)) >= 3
    /\ Last(Last(contours))[1] = "curve"

-----------------------------------------------------------------------------
(* Properties of AICBPen and of the round trip (Spec).                     *)

IsDrawingCall(c) == c[1] \in {"moveTo", "lineTo", "curveTo"}

IsMove(c) == c[1] = "moveTo"

\* the Move/Line/Curve calls of cl
DrawingCalls(cl) == SelectSeq(cl, IsDrawingCall)

\* a call on the AICBPen, with its integer points as the consumer gets them
AsReceived(c) ==
    <<c[1], [k \in 1..Len(c[2]) |-> <<Rat(c[2][k][1]), Rat(c[2][k][2])>>]>>

\* the calls drawn are contours: moveTo, any lineTo/curveTo, closePath
DrawnContours ==
    /\ drawn # <<>>
    /\ drawn[1][1] = "moveTo"
    /\ Last(drawn)[1] = "closePath"
    /\ \A k \in 1..Len(drawn) : drawn[k][1] # "endPath"
    /\ \A k \in 2..Len(drawn) :
           drawn[k][1] = "moveTo" <=> drawn[k - 1][1] = "closePath"

\* C3: contours drawn into an AICBPen as moveTo, lineTo/curveTo calls and
\* closePath, then read back from getData() by drawAICBOutlines with no fit,
\* give the consumer the same Move/Line/Curve operations with the same
\* points, also when the last drawn point of a contour is not its first.
C3_RoundTrip ==
    (pc \in {"done", "raised"} /\ DrawnContours) =>
        /\ result = "True"
        /\ DrawingCalls(calls)
               = [k \in 1..Len(DrawingCalls(drawn)) |->
                     AsReceived(DrawingCalls(drawn)[k])]

\* a line of the text is a move token
IsMoveLine(l) == moveto_RE(l).ok

\* after every move token of the lines ls there is a closure token before
\* the next move token and before the end of the text
SubpathsClosed(ls) ==
    \A i \in 1..Len(ls) :
        IsMoveLine(ls[i]) =>
            \E j \in i + 1..Len(ls) :
                /\ ls[j] = closeToken
                /\ \A k \in i + 1..j - 1 : ~IsMoveLine(ls[k])

\* the text of the pen has been extracted by getData()
Extracted == pc = "call"

\* the statement of claim C6 as written: it holds after any sequence of
\* calls
C6_AnySequenceClosed == Extracted => SubpathsClosed(Splitlines(data))

\* every moveTo is followed by a closePath or an endPath before the next
\* moveTo and before the text is extracted
EachSubpathEnded ==
    \A i \in 1..Len(drawn) :
        IsMove(drawn[i]) =>
            \E j \in i + 1..Len(drawn) :
                /\ drawn[j][1] \in {"closePath", "endPath"}
                /\ \A k \in i + 1..j - 1 : ~IsMove(drawn[k])

\* C6: when every moveTo on the AICBPen is followed by closePath or endPath
\* before the next moveTo and before getData(), the text of getData() has a
\* closure token 'f' between every two consecutive move tokens and between
\* the last move token and the trailer.
C6_EndedSubpathsClosed ==
    (Extracted /\ EachSubpathEnded) => SubpathsClosed(Splitlines(data))

\* the text of two subpaths, each ended, was extracted
C6_Witness ==
    /\ Extracted
    /\ EachSubpathEnded
    /\ CountOf(drawn, "moveTo") >= 2
    /\ Len(SelectSeq(Splitlines(data), IsMoveLine)) >= 2

\* the point of the most recent moveTo, None before any
SubpathStart(cl) ==
    IF \E k \in 1..Len(cl) : IsMove(cl[k])
    THEN StartOf(cl, Len(cl))
    ELSE None

\* this step is a closePath call on the pen
ClosePathCalled ==
    /\ pc = "pen"
    /\ Len(drawn') = Len(drawn) + 1
    /\ Last(drawn')[1] = "closePath"

\* the tokens this step has appended (the earlier ones are unchanged)
NewTokens == SubSeq(epsData', Len(epsData) + 1, Len(epsData'))

EarlierTokensKept ==
    /\ Len(epsData') >= Len(epsData)
    /\ SubSeq(epsData', 1, Len(epsData)) = epsData

\* the token l is a line token to the point pt
IsLineTokenTo(l, pt) ==
    /\ lineto_RE(l).ok
    /\ Last(l) = "l"
    /\ Floats(lineto_RE(l).g) =
           <<[ok |-> TRUE, val |-> Rat(pt[1])], [ok |-> TRUE, val |-> Rat(pt[2])]>>

\* what closePath appends, by the claim
ClosedAsClaimed ==
    /\ penExc' = ""
    /\ EarlierTokensKept
    /\ IF currentPoint # SubpathStart(drawn)
       THEN /\ Len(NewTokens) = 2
            /\ IsLineTokenTo(NewTokens[1], SubpathStart(drawn))
            /\ NewTokens[2] = closeToken
       ELSE NewTokens = <<closeToken>>
    /\ (drawn # <<>> /\ Last(drawn)[1] = "closePath") =>
           NewTokens = <<closeToken>>

\* C10: after any sequence of drawing calls closePath appends a line token
\* back to the point of the most recent moveTo and then 'f' when the current
\* point differs from that point, and only 'f' when they are equal; the
\* tokens emitted earlier are unchanged and a second closePath right after
\* appends only 'f'.
C10_ClosePath == [][ClosePathCalled => ClosedAsClaimed]_vars

====
